---- MODULE Spec2Model ----
(***************************************************************************)
(* A model of claude-xcode-bridge's status pipeline:                       *)
(*   - the monitor server (xcode_monitor_server.py): the XcodeStatus cache *)
(*     with its lock, the poll thread and the HTTP handlers;               *)
(*   - the build-log readers (xcode_build_watcher.py, xcode_statusline.py) *)
(*   - the DerivedData resolvers of both files.                            *)
(* Each part has its own specification; the variables of the other parts   *)
(* are held still by it.                                                   *)
(***************************************************************************)
EXTENDS Integers, Sequences, FiniteSets, TLC

VARIABLES
    \* ---- monitor server ----
    data,       \* XcodeStatus.data, a dict
    lock,       \* XcodeStatus.lock: "free" or the thread holding it
    now,        \* time.time(), whole ticks
    pc,         \* where each thread of the server is
    kw,         \* the kwargs of the update call each thread is in
    pre,        \* history: the cache and the time when the thread took the lock
    req,        \* the request the HTTP thread is handling
    resp,       \* the response written to the client so far
    got,        \* the dict XcodeStatus.get returned to do_GET
    gotAt,      \* history: the committed cache content when get copied it
    wrote,      \* history: the handler of the current request changed the cache
    committed,  \* history: the cache content after the last completed update call
    \* ---- build logs: manifest, watcher, statusline ----
    manifest,           \* LogStoreManifest.plist of the watched directory
    current_time,       \* time.time() as the watcher reads it
    logs,               \* the log artifacts beside the manifest, by file name
    last_build_state,   \* BuildWatcher.last_build_state
    derived_data_path,  \* BuildWatcher.derived_data_path
    published,          \* what the watcher's accepted POSTs leave in the server's cache
    parsed,             \* the last return of BuildWatcher.parse_build_status
    status_data,        \* the last return of get_xcode_status
    log_file,           \* the persisted xcode_statusline_logs.json
    env_logs_path,      \* the environment's XCODE_LOGS_PATH
    ran_extractor,      \* history: the last get_xcode_status pass ran the extractor
    checked,            \* the last return of check_build_failed
    \* ---- DerivedData resolvers ----
    listing,            \* os.listdir of the DerivedData root, with each Info.plist
    active,             \* what osascript prints as the active workspace document
    project_path,       \* BuildWatcher.project_path
    resolved,           \* the last return of a resolver, and who returned it
    \* ---- error extractor ----
    content,            \* the log artifact handed to extract_errors_from_log
    extracted,          \* the last return of extract_errors_from_log
    \* ---- what the external steps answered ----
    observed,           \* history: the inputs of the last get_xcode_status pass
    polled,             \* history: the inputs of the poll pass under way
    \* ---- the watcher's threads and its POSTs ----
    wpc,                \* where each thread of the watcher is in check_build_status
    wres,               \* the (status, errors) each thread got from parse_build_status
    pending,            \* a file event waits for the observer thread
    sent,               \* history: the POST of the last watcher step, if it made one
    undelivered         \* history: the status whose POST from check_build_status failed

cacheVars == <<data, lock, now, pc, kw, pre, req, resp, got, gotAt, wrote, committed>>

buildVars == <<manifest, current_time, logs, last_build_state, derived_data_path,
               published, parsed, status_data, log_file, env_logs_path, ran_extractor,
               checked>>

resolverVars == <<listing, active, project_path, resolved>>

extractVars == <<content, extracted>>

inputVars == <<observed, polled>>

watchVars == <<wpc, wres, pending, sent, undelivered>>

vars == <<cacheVars, buildVars, resolverVars, extractVars, inputVars, watchVars>>

(***************************************************************************)
(* Monitor server: XcodeStatus, StatusHandler, poll_xcode_status.          *)
(***************************************************************************)

\* Ticks of the clock the model lets pass.
MaxTime == 2

\* HTTPServer is the single-threaded server: one handler at a time, beside
\* the daemon poll thread.
Threads == {"poll", "http"}

NoKw == [k \in {} |-> 0]

\* XcodeStatus.__init__
InitialData ==
    [xcode_running     |-> FALSE,
     current_file      |-> "",
     build_status      |-> "idle",
     build_errors      |-> 0,
     last_update       |-> 0,
     project_name      |-> "",
     derived_data_path |-> ""]

\* The separator of the window title: an em dash (U+2014, written -- here)
\* between two spaces.
Separator == " -- "

\* Window titles osascript may print, stripped, as pieces: the separator is a
\* piece of its own, and " - " (a hyphen) is not the separator.
WindowTitles ==
    { <<>>,
      <<"MyApp", Separator, "Main.swift">>,
      <<"MyApp", Separator, "Sources", Separator, "App.swift">>,
      <<"MyApp", " - ", "Main.swift">> }

\* str.split(sep): the parts between the occurrences of sep, from piece i on,
\* with part the pieces gathered since the last occurrence.
RECURSIVE SplitLoop(_, _, _, _)
SplitLoop(s, sep, i, part) ==
    IF i > Len(s) THEN <<part>>
    ELSE IF s[i] = sep THEN <<part>> \o SplitLoop(s, sep, i + 1, <<>>)
    ELSE SplitLoop(s, sep, i + 1, Append(part, s[i]))

Split(s, sep) == SplitLoop(s, sep, 1, <<>>)

\* A part as a string.
Join(part) ==
    IF part = <<>> THEN ""
    ELSE IF Len(part) = 1 THEN part[1]
    ELSE "MyApp - Main.swift"

\* The title parse with the second part as the file.
TitleFieldsSecondPart(title) ==
    IF \E i \in 1..Len(title) : title[i] = Separator
    THEN LET parts == Split(title, Separator)
         IN  [project_name |-> Join(parts[1]), current_file |-> Join(parts[2])]
    ELSE [project_name |-> "", current_file |-> ""]

\* The title parse of poll_xcode_status: parts[0] and parts[-1] when the
\* separator occurs, both empty otherwise.
TitleFields(title) ==
    IF \E i \in 1..Len(title) : title[i] = Separator
    THEN LET parts == Split(title, Separator)
         IN  [project_name |-> Join(parts[1]), current_file |-> Join(parts[Len(parts)])]
    ELSE [project_name |-> "", current_file |-> ""]

NoPoll == [running |-> FALSE, raised |-> FALSE, title |-> <<>>]

\* dict.update(kwargs), clobbering: every key not named falls back to its
\* initial value.
DictUpdateClobber(d, k) ==
    [x \in DOMAIN d \cup DOMAIN k |->
        IF x \in DOMAIN k THEN k[x]
        ELSE IF x = "last_update" THEN d[x] ELSE InitialData[x]]

\* dict.update(kwargs): the named keys take the given values.
DictUpdate(d, k) ==
    [x \in DOMAIN d \cup DOMAIN k |-> IF x \in DOMAIN k THEN k[x] ELSE d[x]]

\* A lock that anyone may take while it is held.
CanAcquireUnlocked(t) == TRUE

\* threading.Lock: `with self.lock` blocks while another thread holds it.
CanAcquire(t) == lock = "free"

\* dict.copy(): a new dict with the same items.
DictCopy(d) == [alias |-> FALSE, val |-> d]

\* What a holder of a dict reference sees.
Deref(r) == IF r.alias THEN data ELSE r.val

NoDict == [alias |-> FALSE, val |-> NoKw]

NoPre == [data |-> NoKw, at |-> 0]

\* ---- XcodeStatus.update, statement by statement ----

UpdateAcquire(t) ==
    /\ pc[t] = "acquire"
    /\ CanAcquire(t)
    /\ lock' = t
    /\ pre' = [pre EXCEPT ![t] = [data |-> data, at |-> now]]
    /\ pc' = [pc EXCEPT ![t] = "merge"]
    /\ UNCHANGED <<buildVars, resolverVars>>
    /\ UNCHANGED <<data, now, kw, req, resp, got, gotAt, wrote, committed>>
    /\ UNCHANGED extractVars
    /\ UNCHANGED inputVars
    /\ UNCHANGED watchVars

UpdateMerge(t) ==
    /\ pc[t] = "merge"
    /\ data' = DictUpdate(data, kw[t])
    /\ wrote' = (wrote \/ t = "http")
    /\ pc' = [pc EXCEPT ![t] = "stamp"]
    /\ UNCHANGED <<buildVars, resolverVars>>
    /\ UNCHANGED <<lock, now, kw, pre, req, resp, got, gotAt, committed>>
    /\ UNCHANGED extractVars
    /\ UNCHANGED inputVars
    /\ UNCHANGED watchVars

UpdateStamp(t) ==
    /\ pc[t] = "stamp"
    /\ data' = [data EXCEPT !["last_update"] = now]
    /\ pc' = [pc EXCEPT ![t] = "release"]
    /\ UNCHANGED <<buildVars, resolverVars>>
    /\ UNCHANGED <<lock, now, kw, pre, req, resp, got, gotAt, wrote, committed>>
    /\ UNCHANGED extractVars
    /\ UNCHANGED inputVars
    /\ UNCHANGED watchVars

UpdateRelease(t) ==
    /\ pc[t] = "release"
    /\ lock' = "free"
    /\ pre' = [pre EXCEPT ![t] = NoPre]
    /\ kw' = [kw EXCEPT ![t] = NoKw]
    /\ committed' = data
    /\ pc' = [pc EXCEPT ![t] = IF t = "poll" THEN "sleep" ELSE "respond"]
    /\ UNCHANGED <<buildVars, resolverVars>>
    /\ UNCHANGED <<data, now, req, resp, got, gotAt, wrote>>
    /\ UNCHANGED extractVars
    /\ UNCHANGED inputVars
    /\ UNCHANGED watchVars

\* ---- poll_xcode_status ----

\* One pass up to the call of status.update: pgrep, then osascript when
\* Xcode runs. A subprocess that raises (a timeout of osascript) is caught by
\* the loop's except and the pass ends without an update.
PollCheck ==
    /\ pc["poll"] = "check"
    /\ \E running \in BOOLEAN, raised \in BOOLEAN, title \in WindowTitles :
        /\ polled' = [running |-> running, raised |-> raised, title |-> title]
        /\ IF raised
           THEN /\ running
                /\ title = <<>>
                /\ pc' = [pc EXCEPT !["poll"] = "sleep"]
                /\ kw' = kw
           ELSE /\ (~running => title = <<>>)
                /\ kw' = [kw EXCEPT !["poll"] =
                       [xcode_running |-> running,
                        current_file  |-> IF running THEN TitleFields(title).current_file ELSE "",
                        project_name  |-> IF running THEN TitleFields(title).project_name ELSE ""]]
                /\ pc' = [pc EXCEPT !["poll"] = "acquire"]
    /\ UNCHANGED <<buildVars, resolverVars>>
    /\ UNCHANGED <<data, lock, now, pre, req, resp, got, gotAt, wrote, committed>>
    /\ UNCHANGED extractVars
    /\ UNCHANGED observed
    /\ UNCHANGED watchVars

\* time.sleep(1), then the next pass.
PollSleep ==
    /\ pc["poll"] = "sleep"
    /\ pc' = [pc EXCEPT !["poll"] = "check"]
    /\ UNCHANGED <<buildVars, resolverVars>>
    /\ UNCHANGED <<data, lock, now, kw, pre, req, resp, got, gotAt, wrote, committed>>
    /\ UNCHANGED extractVars
    /\ polled' = NoPoll
    /\ UNCHANGED observed
    /\ UNCHANGED watchVars

Tick ==
    /\ now < MaxTime
    /\ now' = now + 1
    /\ UNCHANGED <<buildVars, resolverVars>>
    /\ UNCHANGED <<data, lock, pc, kw, pre, req, resp, got, gotAt, wrote, committed>>
    /\ UNCHANGED extractVars
    /\ UNCHANGED inputVars
    /\ UNCHANGED watchVars

\* ---- StatusHandler ----

\* JSON objects a client may POST: the watcher's bodies (update_server), and
\* an object whose key collides with update's own parameter.
PostObjects ==
    { [build_status |-> st.s, build_errors |-> st.e] :
        st \in { [s |-> "building", e |-> 0], [s |-> "failed", e |-> 2],
                 [s |-> "succeeded", e |-> 0] } }
    \cup { [build_status |-> "failed", build_errors |-> 2, derived_data_path |-> "DA"] }
    \cup { [self |-> 1] }

\* Request bodies: a JSON object, JSON that is no object, bytes that are no JSON.
Bodies ==
    { [kind |-> "object", obj |-> o] : o \in PostObjects }
    \cup { [kind |-> "nonobject", obj |-> NoKw], [kind |-> "malformed", obj |-> NoKw] }

NoBody == [kind |-> "none", obj |-> NoKw]

\* The requests of the model. has_length: the Content-Length header is there.
Requests ==
    { [method |-> "GET", path |-> p, has_length |-> FALSE, body |-> NoBody] :
        p \in {"/status", "/health", "/other"} }
    \cup { [method |-> "POST", path |-> "/update", has_length |-> TRUE, body |-> b] :
        b \in Bodies }
    \cup { [method |-> "POST", path |-> "/update", has_length |-> FALSE, body |-> b] :
        b \in { [kind |-> "object", obj |-> [build_status |-> "building", build_errors |-> 0]] } }
    \cup { [method |-> "POST", path |-> "/other", has_length |-> TRUE, body |-> b] :
        b \in { [kind |-> "malformed", obj |-> NoKw] } }

NoReq == [method |-> "none", path |-> "", has_length |-> FALSE, body |-> NoBody]

\* A response: the status line's code and the body. Code 0: nothing was sent.
NoResp == [code |-> 0, body |-> "", json |-> NoKw]

Response(code, body, json) == [code |-> code, body |-> body, json |-> json]

\* json.loads(post_data.decode()) then status.update(**data) raises: the body
\* is no JSON, the JSON is no mapping, or a key is update's own `self`.
UpdateCallRaises(body) ==
    \/ body.kind # "object"
    \/ "self" \in DOMAIN body.obj

\* The server accepts a connection and reads the request line and headers.
HttpReceive ==
    /\ pc["http"] = "idle"
    /\ \E r \in Requests : req' = r
    /\ pc' = [pc EXCEPT !["http"] = "dispatch"]
    /\ UNCHANGED <<buildVars, resolverVars>>
    /\ UNCHANGED <<data, lock, now, kw, pre, resp, got, gotAt, wrote, committed>>
    /\ UNCHANGED extractVars
    /\ UNCHANGED inputVars
    /\ UNCHANGED watchVars

\* do_GET up to the call of status.get, or to its response.
DoGet ==
    /\ pc["http"] = "dispatch"
    /\ req.method = "GET"
    /\ IF req.path = "/status"
       THEN /\ pc' = [pc EXCEPT !["http"] = "get_acquire"]
            /\ resp' = resp
       ELSE IF req.path = "/health"
       THEN /\ resp' = Response(200, "OK", NoKw)
            /\ pc' = [pc EXCEPT !["http"] = "done"]
       ELSE /\ resp' = Response(404, "", NoKw)
            /\ pc' = [pc EXCEPT !["http"] = "done"]
    /\ UNCHANGED <<buildVars, resolverVars>>
    /\ UNCHANGED <<data, lock, now, kw, pre, req, got, gotAt, wrote, committed>>
    /\ UNCHANGED extractVars
    /\ UNCHANGED inputVars
    /\ UNCHANGED watchVars

\* XcodeStatus.get: with self.lock
GetAcquire ==
    /\ pc["http"] = "get_acquire"
    /\ CanAcquire("http")
    /\ lock' = "http"
    /\ pc' = [pc EXCEPT !["http"] = "get_copy"]
    /\ UNCHANGED <<buildVars, resolverVars>>
    /\ UNCHANGED <<data, now, kw, pre, req, resp, got, gotAt, wrote, committed>>
    /\ UNCHANGED extractVars
    /\ UNCHANGED inputVars
    /\ UNCHANGED watchVars

\* XcodeStatus.get: return self.data.copy(), which leaves the with block.
GetCopy ==
    /\ pc["http"] = "get_copy"
    /\ got' = DictCopy(data)
    /\ gotAt' = committed
    /\ lock' = "free"
    /\ pc' = [pc EXCEPT !["http"] = "dumps"]
    /\ UNCHANGED <<buildVars, resolverVars>>
    /\ UNCHANGED <<data, now, kw, pre, req, resp, wrote, committed>>
    /\ UNCHANGED extractVars
    /\ UNCHANGED inputVars
    /\ UNCHANGED watchVars

\* do_GET: the response with json.dumps of the dict get returned.
GetDumps ==
    /\ pc["http"] = "dumps"
    /\ resp' = Response(200, "json", Deref(got))
    /\ pc' = [pc EXCEPT !["http"] = "done"]
    /\ UNCHANGED <<buildVars, resolverVars>>
    /\ UNCHANGED <<data, lock, now, kw, pre, req, got, gotAt, wrote, committed>>
    /\ UNCHANGED extractVars
    /\ UNCHANGED inputVars
    /\ UNCHANGED watchVars

\* do_POST up to the call of status.update, or to its response. The
\* Content-Length header is read before the try block: without it int(None)
\* raises out of the handler, and the server closes the connection with
\* nothing sent.
DoPost ==
    /\ pc["http"] = "dispatch"
    /\ req.method = "POST"
    /\ IF req.path # "/update"
       THEN /\ resp' = Response(404, "", NoKw)
            /\ pc' = [pc EXCEPT !["http"] = "done"]
            /\ kw' = kw
       ELSE IF ~req.has_length
       THEN /\ resp' = NoResp
            /\ pc' = [pc EXCEPT !["http"] = "done"]
            /\ kw' = kw
       ELSE IF UpdateCallRaises(req.body)
       THEN /\ resp' = Response(400, "error", NoKw)
            /\ pc' = [pc EXCEPT !["http"] = "done"]
            /\ kw' = kw
       ELSE /\ kw' = [kw EXCEPT !["http"] = req.body.obj]
            /\ pc' = [pc EXCEPT !["http"] = "acquire"]
            /\ resp' = resp
    /\ UNCHANGED <<buildVars, resolverVars>>
    /\ UNCHANGED <<data, lock, now, pre, req, got, gotAt, wrote, committed>>
    /\ UNCHANGED extractVars
    /\ UNCHANGED inputVars
    /\ UNCHANGED watchVars

\* do_POST after status.update returned: 200 {"success": true}.
PostRespond ==
    /\ pc["http"] = "respond"
    /\ resp' = Response(200, "success", NoKw)
    /\ pc' = [pc EXCEPT !["http"] = "done"]
    /\ UNCHANGED <<buildVars, resolverVars>>
    /\ UNCHANGED <<data, lock, now, kw, pre, req, got, gotAt, wrote, committed>>
    /\ UNCHANGED extractVars
    /\ UNCHANGED inputVars
    /\ UNCHANGED watchVars

\* The handler returned; the server takes the next connection.
HttpDone ==
    /\ pc["http"] = "done"
    /\ pc' = [pc EXCEPT !["http"] = "idle"]
    /\ req' = NoReq
    /\ resp' = NoResp
    /\ got' = NoDict
    /\ gotAt' = NoKw
    /\ wrote' = FALSE
    /\ UNCHANGED <<buildVars, resolverVars>>
    /\ UNCHANGED <<data, lock, now, kw, pre, committed>>
    /\ UNCHANGED extractVars
    /\ UNCHANGED inputVars
    /\ UNCHANGED watchVars

(***************************************************************************)
(* Build logs: LogStoreManifest.plist and its readers.                     *)
(***************************************************************************)

\* Entries a manifest of the model may hold.
MaxRuns == 2

\* The literal 300 of parse_build_status: seconds a run without a stop time
\* counts as active.
ActiveSeconds == 300

\* BUILD_ACTIVE_THRESHOLD of xcode_statusline.py (defined, never read there).
BUILD_ACTIVE_THRESHOLD == 300

\* time.time() readings of the model.
Clock == {1000, 1001}

\* A run being recorded: no timeStoppedRecording. Started 600, 299 and 10
\* seconds before the first clock reading.
OpenRuns ==
    { [has_stop |-> FALSE, stop |-> 0, start |-> st, hls |-> "S", errs |-> 0,
       fileName |-> ""] : st \in {400, 701, 990} }

\* A recorded run: stop time, highLevelStatus, totalNumberOfErrors, fileName.
ClosedRuns ==
    { [has_stop |-> TRUE, stop |-> sp, start |-> 300, hls |-> h,
       errs |-> IF h # "E" THEN 0 ELSE IF sp = 800 THEN 1 ELSE 2,
       fileName |-> IF sp = 800 THEN "r800.log" ELSE "r900.log"] :
        sp \in {800, 900}, h \in {"S", "E", "W", "X"} }

Runs == OpenRuns \cup ClosedRuns

SeqsUpTo(S, n) == UNION { [1..k -> S] : k \in 0..n }

\* The manifest file: a plist whose 'logs' dict holds the runs in iteration
\* order, or absent, or not decodable (logs is then what Xcode would write).
Manifests ==
    { [state |-> st, logs |-> l] :
        st \in {"ok", "missing", "corrupt"}, l \in SeqsUpTo(Runs, MaxRuns) }

\* build_info.get('timeStoppedRecording', 0)
StopTime(run) == IF run.has_stop THEN run.stop ELSE 0

\* The active-build scan of parse_build_status.
ActiveBuild(runs, t) ==
    \E i \in 1..Len(runs) :
        ~runs[i].has_stop /\ runs[i].start > t - ActiveSeconds

\* The latest-build loop of parse_build_status from entry i on: the index of
\* latest_build (0: None) given latest_time so far.
RECURSIVE LatestLoop(_, _, _, _)
LatestLoop(runs, i, latest_time, latest_build) ==
    IF i > Len(runs) THEN latest_build
    ELSE IF StopTime(runs[i]) > latest_time
         THEN LatestLoop(runs, i + 1, StopTime(runs[i]), i)
         ELSE LatestLoop(runs, i + 1, latest_time, latest_build)

\* status_map.get(high_level_status, 'unknown')
StatusMap(hls) ==
    CASE hls = "S" -> "succeeded"
      [] hls = "E" -> "failed"
      [] hls = "W" -> "warning"
      [] OTHER -> "unknown"

\* An active-build scan that looks at the first entry only.
ParseFirstOnly(m, t, last) ==
    IF m.state # "ok"
    THEN [status |-> last.status, errors |-> last.errors, selected |-> 0, raised |-> TRUE]
    ELSE IF Len(m.logs) > 0 /\ ActiveBuild(<<m.logs[1]>>, t)
    THEN [status |-> "building", errors |-> 0, selected |-> 0, raised |-> FALSE]
    ELSE LET latest == LatestLoop(m.logs, 1, 0, 0) IN
         IF latest = 0
         THEN [status |-> "idle", errors |-> 0, selected |-> 0, raised |-> FALSE]
         ELSE [status |-> StatusMap(m.logs[latest].hls),
               errors |-> m.logs[latest].errs, selected |-> latest, raised |-> FALSE]

\* A latest-build loop that keeps the last entry with a stop time.
ParseLastEntry(m, t, last) ==
    IF m.state # "ok"
    THEN [status |-> last.status, errors |-> last.errors, selected |-> 0, raised |-> TRUE]
    ELSE IF ActiveBuild(m.logs, t)
    THEN [status |-> "building", errors |-> 0, selected |-> 0, raised |-> FALSE]
    ELSE LET done == { i \in 1..Len(m.logs) : m.logs[i].has_stop }
             latest == IF done = {} THEN 0 ELSE CHOOSE i \in done : \A j \in done : j <= i IN
         IF latest = 0
         THEN [status |-> "idle", errors |-> 0, selected |-> 0, raised |-> FALSE]
         ELSE [status |-> StatusMap(m.logs[latest].hls),
               errors |-> m.logs[latest].errs, selected |-> latest, raised |-> FALSE]

\* BuildWatcher.parse_build_status: (status, errors), with the entry the
\* latest-build loop chose (0 when the loop did not run or chose none) and
\* whether the except branch returned last_build_state.
parse_build_status(m, t, last) ==
    IF m.state # "ok"
    THEN [status |-> last.status, errors |-> last.errors, selected |-> 0, raised |-> TRUE]
    ELSE IF ActiveBuild(m.logs, t)
    THEN [status |-> "building", errors |-> 0, selected |-> 0, raised |-> FALSE]
    ELSE LET latest == LatestLoop(m.logs, 1, 0, 0) IN
         IF latest = 0
         THEN [status |-> "idle", errors |-> 0, selected |-> 0, raised |-> FALSE]
         ELSE [status |-> StatusMap(m.logs[latest].hls),
               errors |-> m.logs[latest].errs, selected |-> latest, raised |-> FALSE]

\* The latest-build loop of check_build_failed.
RECURSIVE FailedLoop(_, _, _, _)
FailedLoop(runs, i, latest_time, latest_build) ==
    IF i > Len(runs) THEN latest_build
    ELSE IF StopTime(runs[i]) > latest_time
         THEN FailedLoop(runs, i + 1, StopTime(runs[i]), i)
         ELSE FailedLoop(runs, i + 1, latest_time, latest_build)

\* check_build_failed: (build_failed, error_count), with the entry chosen.
check_build_failed(m) ==
    IF m.state # "ok"
    THEN [failed |-> FALSE, error_count |-> 0, selected |-> 0]
    ELSE LET latest == FailedLoop(m.logs, 1, 0, 0) IN
         IF latest = 0
         THEN [failed |-> FALSE, error_count |-> 0, selected |-> 0]
         ELSE [failed |-> m.logs[latest].hls = "E",
               error_count |-> m.logs[latest].errs, selected |-> latest]

\* ---- extract_errors_from_log ----

\* A log line as the patterns see it: loc, the text matching
\* .+\.swift:\d+:\d+ before a colon ("" when there is none); abs, that text is
\* an absolute path without a colon, so the /[^:]+ patterns match it too;
\* marker, the prefix after the location or at the start ("error", "warning",
\* "failed" for compilation failed, "error failed" for "error: compilation
\* failed:", "" for none); msg, the rest of the line.
\* A message carries what the filters look at: len, its number of characters;
\* word, the occurrence of "warning" in it as it is spelled ("" when there is
\* none); upper_run, the longest run of characters of 0-9A-F in it; hex_run,
\* the longest run of hex digits of either case.
Message(text, len, word, upper_run, hex_run) ==
    [text |-> text, len |-> len, word |-> word,
     upper_run |-> upper_run, hex_run |-> hex_run]

LogLine(loc, abs, marker, msg) ==
    [loc |-> loc, abs |-> abs, marker |-> marker, msg |-> msg]

\* A record of the output: f"{file_location}: {error_message}", or a bare
\* message. prefix is the part of error_message before msg.
ErrorRecord(loc, prefix, msg) == [loc |-> loc, prefix |-> prefix, msg |-> msg]

MarkerText(marker) ==
    CASE marker = "error" -> "error: "
      [] marker = "warning" -> "warning: "
      [] marker = "failed" -> "compilation failed: "
      [] marker = "error failed" -> "error: compilation failed: "
      [] OTHER -> ""

\* MAX_ERROR_LENGTH of xcode_statusline.py.
MAX_ERROR_LENGTH == 500

\* The {20,} of the pattern [0-9A-F]{20,}.
HexRunLength == 20

\* len() of the locations and prefixes of the model.
StrLen(s) ==
    CASE s = "" -> 0
      [] s = "/w/App/Main.swift:3:5" -> 21
      [] s = "/w/App/Main.swift:7:9" -> 21
      [] s = "/w/App/Main.swift:8:1" -> 21
      [] s = "Main.swift:9:1" -> 14
      [] s = "error: " -> 7
      [] s = "warning: " -> 9
      [] s = "compilation failed: " -> 20
      [] s = "error: compilation failed: " -> 27
      [] OTHER -> 1

\* len(full_error), or len(error_message) of the generic tier.
RecordLen(rec) ==
    IF rec.loc = "" THEN StrLen(rec.prefix) + rec.msg.len
    ELSE StrLen(rec.loc) + 2 + StrLen(rec.prefix) + rec.msg.len

\* str.lower() on the spellings of the model.
Lower(s) ==
    CASE s = "Warning" -> "warning"
      [] s = "WARNING:" -> "warning:"
      [] OTHER -> s

\* "warning:" in error_message.lower()
HasWarningColon(rec) ==
    \/ Lower(rec.prefix) = "warning: "
    \/ Lower(rec.msg.word) = "warning:"

\* The matches of swift_error_patterns on a line, in pattern order: each the
\* record its groups would make.
SwiftMatches(line) ==
    IF line.loc = "" THEN <<>>
    ELSE (IF line.marker = "error" THEN <<ErrorRecord(line.loc, "", line.msg)>> ELSE <<>>)
         \o <<ErrorRecord(line.loc, MarkerText(line.marker), line.msg)>>
         \o (IF line.abs /\ line.marker = "error"
             THEN <<ErrorRecord(line.loc, "", line.msg)>> ELSE <<>>)
         \o (IF line.abs
             THEN <<ErrorRecord(line.loc, MarkerText(line.marker), line.msg)>> ELSE <<>>)

InSeq(x, sq) == \E i \in 1..Len(sq) : sq[i] = x

\* len(full_error) < MAX_ERROR_LENGTH and no run matching [0-9A-F]{20,} and
\* not yet listed
Accepted(rec, errors) ==
    /\ RecordLen(rec) < MAX_ERROR_LENGTH
    /\ rec.msg.upper_run < HexRunLength
    /\ ~InSeq(rec, errors)

\* The pattern loop on one line: a match whose message holds "warning:" goes
\* on to the next pattern, an accepted match is appended and ends the loop, a
\* rejected match goes on to the next pattern.
RECURSIVE SwiftPatternLoop(_, _, _)
SwiftPatternLoop(matches, i, swift_errors) ==
    IF i > Len(matches) THEN swift_errors
    ELSE IF HasWarningColon(matches[i]) THEN SwiftPatternLoop(matches, i + 1, swift_errors)
    ELSE IF Accepted(matches[i], swift_errors) THEN Append(swift_errors, matches[i])
    ELSE SwiftPatternLoop(matches, i + 1, swift_errors)

RECURSIVE SwiftErrors(_, _, _)
SwiftErrors(lines, i, swift_errors) ==
    IF i > Len(lines) THEN swift_errors
    ELSE SwiftErrors(lines, i + 1, SwiftPatternLoop(SwiftMatches(lines[i]), 1, swift_errors))

\* The matches of error_patterns (re.IGNORECASE) on a line: "error:" and
\* "Error:" match the same text, "fatal error:" lines match "error:" first,
\* "compilation failed:" is the last pattern. The group is the stripped rest:
\* on "error: compilation failed: ..." the first two patterns take the text
\* after "error:", the last the text after "compilation failed:".
GenericMatches(line) ==
    IF line.marker = "error"
    THEN <<ErrorRecord("", "", line.msg), ErrorRecord("", "", line.msg)>>
    ELSE IF line.marker = "failed"
    THEN <<ErrorRecord("", "", line.msg)>>
    ELSE IF line.marker = "error failed"
    THEN <<ErrorRecord("", "compilation failed: ", line.msg),
           ErrorRecord("", "compilation failed: ", line.msg),
           ErrorRecord("", "", line.msg)>>
    ELSE <<>>

\* The generic loop has no break: every matching pattern's message is offered.
RECURSIVE GenericPatternLoop(_, _, _)
GenericPatternLoop(matches, i, generic_errors) ==
    IF i > Len(matches) THEN generic_errors
    ELSE GenericPatternLoop(matches, i + 1,
            IF Accepted(matches[i], generic_errors)
            THEN Append(generic_errors, matches[i]) ELSE generic_errors)

RECURSIVE GenericErrors(_, _, _)
GenericErrors(lines, i, generic_errors) ==
    IF i > Len(lines) THEN generic_errors
    ELSE GenericErrors(lines, i + 1,
            GenericPatternLoop(GenericMatches(lines[i]), 1, generic_errors))

\* An extractor that returns the records of both tiers.
ExtractBothTiers(file) ==
    IF ~file.readable THEN <<>>
    ELSE SwiftErrors(file.lines, 1, <<>>) \o GenericErrors(file.lines, 1, <<>>)

\* extract_errors_from_log on a file's lines: the swift errors, or the
\* generic errors when there are none. A file that cannot be read gives [].
extract_errors_from_log(file) ==
    IF ~file.readable THEN <<>>
    ELSE LET swift_errors == SwiftErrors(file.lines, 1, <<>>) IN
         IF swift_errors # <<>> THEN swift_errors
         ELSE GenericErrors(file.lines, 1, <<>>)

\* ---- parse_build_errors_detailed ----

\* The loop without the stop-time test: the first completed entry with
\* highLevelStatus E.
DetailedFirstFailed(runs, i, latest_time, latest_build) ==
    LET failed == { k \in 1..Len(runs) : StopTime(runs[k]) > 0 /\ runs[k].hls = "E" }
    IN  IF failed = {} THEN 0 ELSE CHOOSE k \in failed : \A j \in failed : k <= j

\* Its loop: the latest entry among those with highLevelStatus E.
RECURSIVE DetailedLoop(_, _, _, _)
DetailedLoop(runs, i, latest_time, latest_build) ==
    IF i > Len(runs) THEN latest_build
    ELSE IF StopTime(runs[i]) > latest_time /\ runs[i].hls = "E"
         THEN DetailedLoop(runs, i + 1, StopTime(runs[i]), i)
         ELSE DetailedLoop(runs, i + 1, latest_time, latest_build)

\* A log artifact: present or not (os.path.exists), readable or not, lines.
NoFile == [exists |-> FALSE, readable |-> FALSE, lines |-> <<>>]

LogNames == {"r800.log", "r900.log"}

\* parse_build_errors_detailed: the extractor's output for the latest failed
\* run's log, [] when there is no such run, no fileName, no file, or the
\* manifest cannot be read.
parse_build_errors_detailed(m, files) ==
    IF m.state # "ok" THEN <<>>
    ELSE LET latest == DetailedLoop(m.logs, 1, 0, 0) IN
         IF latest = 0 THEN <<>>
         ELSE LET log_file_name == m.logs[latest].fileName IN
              IF log_file_name = "" THEN <<>>
              ELSE IF ~files[log_file_name].exists THEN <<>>
              ELSE extract_errors_from_log(files[log_file_name])

\* Whether parse_build_errors_detailed reaches extract_errors_from_log.
DetailedRunsExtractor(m, files) ==
    /\ m.state = "ok"
    /\ DetailedLoop(m.logs, 1, 0, 0) # 0
    /\ m.logs[DetailedLoop(m.logs, 1, 0, 0)].fileName # ""
    /\ files[m.logs[DetailedLoop(m.logs, 1, 0, 0)].fileName].exists

\* ---- get_xcode_status ----

\* The log lines of the model's artifacts.
LineSwiftError ==
    LogLine("/w/App/Main.swift:3:5", TRUE, "error",
            Message("cannot find 'x' in scope", 24, "", 0, 0))

LogFiles ==
    { NoFile,
      [exists |-> TRUE, readable |-> TRUE, lines |-> <<>>],
      [exists |-> TRUE, readable |-> TRUE, lines |-> <<LineSwiftError>>] }

\* The title parse of get_xcode_status: parts[0] and parts[-1] when the
\* separator occurs, both empty otherwise.
ParseWindowTitle(title) ==
    IF \E i \in 1..Len(title) : title[i] = Separator
    THEN LET parts == Split(title, Separator)
         IN  [project_name |-> Join(parts[1]), current_file |-> Join(parts[Len(parts)])]
    ELSE [project_name |-> "", current_file |-> ""]

NoStatus == [none |-> TRUE]

NoCheck == [called |-> FALSE,
            result |-> [failed |-> FALSE, error_count |-> 0, selected |-> 0]]

NotRunning == [xcode_running |-> FALSE]

\* status_data of get_xcode_status with Xcode running: title the window
\* title, dd the resolver's return, m the manifest, files the log artifacts,
\* cfp the return of get_current_file_path, ppath the WorkspacePath read back.
StatusData(title, dd, m, files, cfp, ppath) ==
    LET fields == ParseWindowTitle(title)
        has_manifest == dd # "None" /\ m.state # "missing"
        build_failed == has_manifest /\ check_build_failed(m).failed
        detailed_errors ==
            IF build_failed THEN parse_build_errors_detailed(m, files) ELSE <<>>
    IN  [xcode_running     |-> TRUE,
         current_file      |-> fields.current_file,
         project_name      |-> fields.project_name,
         build_errors      |-> IF ~build_failed THEN 0
                               ELSE IF detailed_errors # <<>> THEN Len(detailed_errors)
                               ELSE check_build_failed(m).error_count,
         detailed_errors   |-> detailed_errors,
         project_path      |-> ppath,
         current_file_path |-> cfp]

\* log_data of write_logs.
LogData(status, ppath, cfp, t) ==
    [timestamp         |-> t,
     xcode_running     |-> status.xcode_running,
     project_name      |-> status.project_name,
     project_path      |-> ppath,
     current_file      |-> status.current_file,
     current_file_path |-> cfp,
     build_errors      |-> status.build_errors,
     detailed_errors   |-> status.detailed_errors]

\* read_xcode_context, as far as its first line: what the reader makes of
\* XCODE_LOGS_PATH and the persisted file.
read_xcode_context(logs_path, file) ==
    IF logs_path = "" THEN "No XCODE_LOGS_PATH configured"
    ELSE IF file = NoStatus THEN "No Xcode context available (logs not found)"
    ELSE IF ~file.xcode_running THEN "Xcode is currently closed"
    ELSE "Xcode is running"

\* What a pass observed of its external steps; a step that did not run
\* observed nothing.
NoObserved ==
    [running |-> FALSE, title_raised |-> FALSE, title |-> <<>>, dd |-> "None",
     cfp |-> "", plist_ok |-> FALSE, fault |-> "none"]

\* One call of get_xcode_status, write_logs included. The inputs: pgrep's
\* answer, the window title or a timeout of osascript, the resolver's return,
\* get_current_file_path's return, whether Info.plist could be read back, and
\* a fault of write_logs ("makedirs" raises out of it, "open" is swallowed).
\* Whatever raises inside the outer try makes the call return
\* {"xcode_running": False}.
GetXcodeStatusPass(titles, title_raises, dds, cfps, plist_oks, faults) ==
    /\ \E running \in BOOLEAN, title \in titles, raises \in title_raises, dd \in dds,
          cfp \in cfps, plist_ok \in plist_oks, fault \in faults :
        LET ppath == IF dd # "None" /\ plist_ok THEN "/w/MyApp.xcodeproj" ELSE ""
            status == StatusData(title, dd, manifest, logs, cfp, ppath)
            written == env_logs_path # "" /\ fault = "none"
            raised == raises \/ (env_logs_path # "" /\ fault = "makedirs")
        IN  IF ~running
            THEN /\ status_data' = NotRunning
                 /\ ran_extractor' = FALSE
                 /\ checked' = NoCheck
                 /\ log_file' = log_file
                 /\ observed' = NoObserved
            ELSE /\ status_data' = IF raised THEN NotRunning ELSE status
                 /\ observed' = IF raises
                                 THEN [NoObserved EXCEPT !.running = TRUE,
                                                         !.title_raised = TRUE]
                                 ELSE [running |-> TRUE, title_raised |-> FALSE,
                                       title |-> title, dd |-> dd, cfp |-> cfp,
                                       plist_ok |-> plist_ok,
                                       fault |-> IF env_logs_path # "" THEN fault
                                                 ELSE "none"]
                 /\ checked' = IF ~raises /\ dd # "None" /\ manifest.state # "missing"
                               THEN [called |-> TRUE, result |-> check_build_failed(manifest)]
                               ELSE NoCheck
                 /\ ran_extractor' =
                        (/\ ~raises
                         /\ dd # "None"
                         /\ manifest.state # "missing"
                         /\ check_build_failed(manifest).failed
                         /\ DetailedRunsExtractor(manifest, logs))
                 /\ log_file' = IF ~raises /\ written
                                THEN LogData(status, ppath, cfp, current_time)
                                ELSE log_file
    /\ UNCHANGED <<manifest, current_time, logs, last_build_state, derived_data_path,
                   published, parsed, env_logs_path>>
    /\ UNCHANGED <<cacheVars, resolverVars>>
    /\ UNCHANGED extractVars
    /\ UNCHANGED polled
    /\ UNCHANGED watchVars

\* The pass as the build-log specification drives it: one title, no faults.
StatuslinePass ==
    GetXcodeStatusPass({<<"MyApp", Separator, "Main.swift">>}, {FALSE}, {"None", "DA"},
                       {""}, {TRUE}, {"none"})

\* The pass with every answer its external steps can give.
AggregatorPass ==
    GetXcodeStatusPass(WindowTitles, BOOLEAN, {"None", "DA"},
                       {"", "/w/App/Main.swift"}, BOOLEAN, {"none"})

\* ---- BuildWatcher ----

NoParse == [called |-> FALSE,
            result |-> [status |-> "", errors |-> 0, selected |-> 0, raised |-> FALSE]]

\* update_server: the POST's effect on the server's cache when it arrives.
Posted(pub, status, errors, dd) ==
    [build_status |-> status, build_errors |-> errors,
     derived_data_path |-> IF dd # "None" THEN dd ELSE pub.derived_data_path]

\* The watch loop found the active project's directory (watch_builds calls
\* find_active_derived_data, which sets derived_data_path).
WatchLoopResolve ==
    /\ derived_data_path = "None"
    /\ derived_data_path' = "DA"
    /\ UNCHANGED <<manifest, current_time, logs, last_build_state, published, parsed,
                   status_data, log_file, env_logs_path, ran_extractor, checked>>
    /\ UNCHANGED <<cacheVars, resolverVars>>
    /\ UNCHANGED extractVars
    /\ UNCHANGED inputVars
    /\ UNCHANGED watchVars

\* The threads that call check_build_status: the watch loop (its status
\* check after observer.start()) and the observer thread (on_modified,
\* on_created).
WatcherThreads == {"loop", "observer"}

NoResult == [status |-> "", errors |-> 0]

NoSent == [called |-> FALSE, status |-> "", errors |-> 0, arrived |-> FALSE]

NoUndelivered == [waiting |-> FALSE, status |-> "", errors |-> 0]

\* requests.post in update_server: what was sent, and whether the server
\* answered 200.
Post(status, errors, arrives) ==
    [called |-> TRUE, status |-> status, errors |-> errors, arrived |-> arrives]

\* The status check_build_status could not deliver: kept until a POST arrives.
Undelivered(und, status, errors, arrives) ==
    IF arrives THEN NoUndelivered
    ELSE [waiting |-> TRUE, status |-> status, errors |-> errors]

\* check_build_status, update_server included: called by on_modified, by
\* on_created for the manifest and by the watch loop. The POST arrives or not.
CheckBuildStatus ==
    /\ IF derived_data_path = "None" \/ manifest.state = "missing"
       THEN /\ parsed' = NoParse
            /\ sent' = NoSent
            /\ UNCHANGED <<last_build_state, published, undelivered>>
       ELSE LET r == parse_build_status(manifest, current_time, last_build_state) IN
            /\ parsed' = [called |-> TRUE, result |-> r]
            /\ IF r.status # last_build_state.status \/ r.errors # last_build_state.errors
               THEN /\ last_build_state' = [status |-> r.status, errors |-> r.errors]
                    /\ \E arrives \in BOOLEAN :
                        /\ published' = IF arrives
                                        THEN Posted(published, r.status, r.errors,
                                                    derived_data_path)
                                        ELSE published
                        /\ sent' = Post(r.status, r.errors, arrives)
                        /\ undelivered' = Undelivered(undelivered, r.status, r.errors,
                                                      arrives)
               ELSE /\ sent' = NoSent
                    /\ UNCHANGED <<last_build_state, published, undelivered>>
    /\ UNCHANGED <<manifest, current_time, logs, derived_data_path, status_data, log_file,
                   env_logs_path, ran_extractor, checked>>
    /\ UNCHANGED <<cacheVars, resolverVars>>
    /\ UNCHANGED extractVars
    /\ UNCHANGED inputVars
    /\ UNCHANGED <<wpc, wres, pending>>

\* on_created for an .xcactivitylog: update_server(building, 0).
OnCreatedLog ==
    /\ derived_data_path # "None"
    /\ \E arrives \in BOOLEAN :
        /\ published' = IF arrives THEN Posted(published, "building", 0, derived_data_path)
                        ELSE published
        /\ sent' = Post("building", 0, arrives)
    /\ UNCHANGED undelivered
    /\ parsed' = NoParse
    /\ UNCHANGED <<manifest, current_time, logs, last_build_state, derived_data_path,
                   status_data, log_file, env_logs_path, ran_extractor, checked>>
    /\ UNCHANGED <<cacheVars, resolverVars>>
    /\ UNCHANGED extractVars
    /\ UNCHANGED inputVars
    /\ UNCHANGED <<wpc, wres, pending>>

\* ---- check_build_status on the watcher's two threads ----

\* The manifests Xcode leaves while it builds: one run being recorded, one
\* run recorded as failed, one recorded as succeeded.
WrittenManifests ==
    { [state |-> "ok", logs |-> <<r>>] :
        r \in { x \in Runs : \/ (~x.has_stop /\ x.start = 990)
                              \/ (x.has_stop /\ x.stop = 800 /\ x.hls = "E")
                              \/ (x.has_stop /\ x.stop = 900 /\ x.hls = "S") } }

\* Xcode rewrites the manifest; watchdog queues the event for the observer
\* thread.
ManifestWritten ==
    /\ manifest' \in WrittenManifests \ {manifest}
    /\ pending' = TRUE
    /\ sent' = NoSent
    /\ UNCHANGED <<wpc, wres, undelivered>>
    /\ UNCHANGED <<current_time, logs, last_build_state, derived_data_path, published,
                   parsed, status_data, log_file, env_logs_path, ran_extractor, checked>>
    /\ UNCHANGED <<cacheVars, resolverVars>>
    /\ UNCHANGED extractVars
    /\ UNCHANGED inputVars

\* Thread t enters check_build_status and reads the manifest: the watch loop
\* whenever it comes round, the observer thread when an event is queued
\* (on_modified, on_created). Without a directory or a manifest it returns.
CheckBegin(t) ==
    /\ wpc[t] = "idle"
    /\ t = "observer" => pending
    /\ pending' = IF t = "observer" THEN FALSE ELSE pending
    /\ IF derived_data_path = "None" \/ manifest.state = "missing"
       THEN UNCHANGED <<wpc, wres>>
       ELSE LET r == parse_build_status(manifest, current_time, last_build_state) IN
            /\ wres' = [wres EXCEPT ![t] = [status |-> r.status, errors |-> r.errors]]
            /\ wpc' = [wpc EXCEPT ![t] = "compare"]
    /\ sent' = NoSent
    /\ UNCHANGED undelivered
    /\ UNCHANGED <<manifest, current_time, logs, last_build_state, derived_data_path,
                   published, parsed, status_data, log_file, env_logs_path, ran_extractor,
                   checked>>
    /\ UNCHANGED <<cacheVars, resolverVars>>
    /\ UNCHANGED extractVars
    /\ UNCHANGED inputVars

\* Thread t compares what it read with last_build_state and, on a change,
\* stores it (taken as one step; the interpreter may switch threads between
\* the test and the store as well).
CheckCompare(t) ==
    /\ wpc[t] = "compare"
    /\ IF wres[t].status # last_build_state.status
          \/ wres[t].errors # last_build_state.errors
       THEN /\ last_build_state' = wres[t]
            /\ wpc' = [wpc EXCEPT ![t] = "post"]
            /\ UNCHANGED wres
       ELSE /\ wpc' = [wpc EXCEPT ![t] = "idle"]
            /\ wres' = [wres EXCEPT ![t] = NoResult]
            /\ UNCHANGED last_build_state
    /\ sent' = NoSent
    /\ UNCHANGED <<pending, undelivered>>
    /\ UNCHANGED <<manifest, current_time, logs, derived_data_path, published, parsed,
                   status_data, log_file, env_logs_path, ran_extractor, checked>>
    /\ UNCHANGED <<cacheVars, resolverVars>>
    /\ UNCHANGED extractVars
    /\ UNCHANGED inputVars

\* Thread t calls update_server with what it read; the POST arrives or not,
\* and the pass is over.
CheckPost(t) ==
    /\ wpc[t] = "post"
    /\ \E arrives \in BOOLEAN :
        /\ published' = IF arrives
                        THEN Posted(published, wres[t].status, wres[t].errors,
                                    derived_data_path)
                        ELSE published
        /\ sent' = Post(wres[t].status, wres[t].errors, arrives)
        /\ undelivered' = Undelivered(undelivered, wres[t].status, wres[t].errors, arrives)
    /\ wpc' = [wpc EXCEPT ![t] = "idle"]
    /\ wres' = [wres EXCEPT ![t] = NoResult]
    /\ UNCHANGED pending
    /\ UNCHANGED <<manifest, current_time, logs, last_build_state, derived_data_path,
                   parsed, status_data, log_file, env_logs_path, ran_extractor, checked>>
    /\ UNCHANGED <<cacheVars, resolverVars>>
    /\ UNCHANGED extractVars
    /\ UNCHANGED inputVars

\* The watcher reads the manifest: parse_build_status alone.
ReadWatcher ==
    /\ parsed' = [called |-> TRUE,
                  result |-> parse_build_status(manifest, current_time, last_build_state)]
    /\ UNCHANGED <<manifest, current_time, logs, last_build_state, derived_data_path,
                   published, status_data, log_file, env_logs_path, ran_extractor, checked>>
    /\ UNCHANGED <<cacheVars, resolverVars>>
    /\ UNCHANGED extractVars
    /\ UNCHANGED inputVars
    /\ UNCHANGED watchVars

\* The statusline reads the manifest: check_build_failed alone.
ReadStatusline ==
    /\ checked' = [called |-> TRUE, result |-> check_build_failed(manifest)]
    /\ UNCHANGED <<manifest, current_time, logs, last_build_state, derived_data_path,
                   published, parsed, status_data, log_file, env_logs_path, ran_extractor>>
    /\ UNCHANGED <<cacheVars, resolverVars>>
    /\ UNCHANGED extractVars
    /\ UNCHANGED inputVars
    /\ UNCHANGED watchVars

\* The manifest is removed or damaged (a torn write, a full disk). What the
\* last calls returned is forgotten with it.
ManifestDamaged ==
    /\ manifest.state = "ok"
    /\ \E st \in {"missing", "corrupt"} : manifest' = [manifest EXCEPT !.state = st]
    /\ parsed' = NoParse
    /\ status_data' = NoStatus
    /\ ran_extractor' = FALSE
    /\ checked' = NoCheck
    /\ UNCHANGED <<current_time, logs, last_build_state, derived_data_path, published,
                   log_file, env_logs_path>>
    /\ UNCHANGED <<cacheVars, resolverVars>>
    /\ UNCHANGED extractVars
    /\ observed' = NoObserved
    /\ UNCHANGED polled
    /\ sent' = NoSent
    /\ UNCHANGED <<wpc, wres, pending, undelivered>>

\* Xcode writes the manifest again, with the runs it had.
ManifestRestored ==
    /\ manifest.state # "ok"
    /\ manifest' = [manifest EXCEPT !.state = "ok"]
    /\ parsed' = NoParse
    /\ status_data' = NoStatus
    /\ ran_extractor' = FALSE
    /\ checked' = NoCheck
    /\ UNCHANGED <<current_time, logs, last_build_state, derived_data_path, published,
                   log_file, env_logs_path>>
    /\ UNCHANGED <<cacheVars, resolverVars>>
    /\ UNCHANGED extractVars
    /\ observed' = NoObserved
    /\ UNCHANGED polled
    /\ sent' = NoSent
    /\ UNCHANGED <<wpc, wres, pending, undelivered>>

\* A second passes.
ClockTick ==
    /\ current_time + 1 \in Clock
    /\ current_time' = current_time + 1
    /\ parsed' = NoParse
    /\ status_data' = NoStatus
    /\ ran_extractor' = FALSE
    /\ checked' = NoCheck
    /\ UNCHANGED <<manifest, logs, last_build_state, derived_data_path, published,
                   log_file, env_logs_path>>
    /\ UNCHANGED <<cacheVars, resolverVars>>
    /\ UNCHANGED extractVars
    /\ observed' = NoObserved
    /\ UNCHANGED polled
    /\ sent' = NoSent
    /\ UNCHANGED <<wpc, wres, pending, undelivered>>

\* ---- extract_errors_from_log on its own ----

MaxLines == 3

LineRelativeError ==
    LogLine("Main.swift:9:1", FALSE, "error",
            Message("missing return in function", 26, "", 0, 0))

LineSwiftWarning ==
    LogLine("/w/App/Main.swift:7:9", TRUE, "warning",
            Message("variable 'y' was never used", 27, "", 0, 0))

LineWarningWord ==
    LogLine("/w/App/Main.swift:8:1", TRUE, "error",
            Message("cannot find type 'WarningView' in scope", 39, "Warning", 0, 0))

LineWarningInError ==
    LogLine("/w/App/Main.swift:8:1", TRUE, "error",
            Message("WARNING: treated as error", 25, "WARNING:", 0, 0))

LineHexUpper ==
    LogLine("/w/App/Main.swift:3:5", TRUE, "error",
            Message("undefined symbol 1A2B3C4D5E6F7A8B9C0D1E2F", 41, "", 24, 24))

LineHexLower ==
    LogLine("/w/App/Main.swift:3:5", TRUE, "error",
            Message("undefined symbol 1a2b3c4d5e6f7a8b9c0d1e2f", 41, "", 1, 24))

LineLong ==
    LogLine("/w/App/Main.swift:3:5", TRUE, "error",
            Message("type of expression is ambiguous ...", 480, "", 0, 0))

LineGeneric == LogLine("", FALSE, "error", Message("disk full", 9, "", 0, 0))

LineFailed == LogLine("", FALSE, "failed", Message("see log above", 13, "", 0, 0))

LineErrorFailed ==
    LogLine("", FALSE, "error failed", Message("see log above", 13, "", 0, 0))

LineNoise == LogLine("", FALSE, "", Message("CompileSwift normal arm64", 25, "", 0, 0))

LogLines ==
    { LineSwiftError, LineRelativeError, LineSwiftWarning, LineWarningWord,
      LineWarningInError, LineHexUpper, LineHexLower, LineLong, LineGeneric,
      LineFailed, LineErrorFailed, LineNoise }

NoExtract == [called |-> FALSE, value |-> <<>>]

\* parse_build_errors_detailed hands the log artifact to the extractor.
ExtractErrors ==
    /\ ~extracted.called
    /\ extracted' = [called |-> TRUE, value |-> extract_errors_from_log(content)]
    /\ UNCHANGED content
    /\ UNCHANGED <<cacheVars, buildVars, resolverVars>>
    /\ UNCHANGED inputVars
    /\ UNCHANGED watchVars

\* The build appends a line to the log; what was extracted is out of date.
AppendLine ==
    /\ content.readable
    /\ Len(content.lines) < MaxLines
    /\ \E l \in LogLines : content' = [content EXCEPT !.lines = Append(@, l)]
    /\ extracted' = NoExtract
    /\ UNCHANGED <<cacheVars, buildVars, resolverVars>>
    /\ UNCHANGED inputVars
    /\ UNCHANGED watchVars

(***************************************************************************)
(* DerivedData resolvers: find_active_derived_data of both files.          *)
(***************************************************************************)

\* PROJECT_EXTENSIONS of xcode_statusline.py; the watcher replaces the same
\* two, in the same order.
PROJECT_EXTENSIONS == <<".xcworkspace", ".xcodeproj">>

\* The project files on disk, and the file each path leads to (0: no such
\* file). "/link/MyApp.xcodeproj" is a symlink to "/w/MyApp.xcodeproj";
\* "/old/MyApp.xcodeproj" is another project of the same name.
Inode(path) ==
    CASE path = "/w/MyApp.xcodeproj"    -> 1
      [] path = "/link/MyApp.xcodeproj" -> 1
      [] path = "/old/MyApp.xcodeproj"  -> 2
      [] path = "/w/My App.xcodeproj"   -> 3
      [] OTHER                          -> 0

\* A string as the pieces the resolvers' string operations tell apart.
Pieces(s) ==
    CASE s = "/w/MyApp.xcodeproj"    -> <<"/w/", "My", "App", ".xcodeproj">>
      [] s = "/link/MyApp.xcodeproj" -> <<"/link/", "My", "App", ".xcodeproj">>
      [] s = "/old/MyApp.xcodeproj"  -> <<"/old/", "My", "App", ".xcodeproj">>
      [] s = "/gone/MyApp.xcodeproj" -> <<"/gone/", "My", "App", ".xcodeproj">>
      [] s = "/w/My App.xcodeproj"   -> <<"/w/", "My", " ", "App", ".xcodeproj">>
      [] s = "MyApp-h1"              -> <<"My", "App", "-h1">>
      [] s = "My_App-h2"             -> <<"My", "_", "App", "-h2">>
      [] s = "My App-h3"             -> <<"My", " ", "App", "-h3">>
      [] s = "MyAppKit-h4"           -> <<"My", "App", "Kit", "-h4">>
      [] OTHER                       -> <<>>

\* os.path.basename.
Basename(path) == Tail(Pieces(path))

\* str.replace(old, new); new = "" removes.
RECURSIVE Replace(_, _, _)
Replace(s, old, new) ==
    IF s = <<>> THEN <<>>
    ELSE (IF Head(s) = old THEN (IF new = "" THEN <<>> ELSE <<new>>) ELSE <<Head(s)>>)
         \o Replace(Tail(s), old, new)

\* str.startswith.
StartsWith(s, prefix) ==
    Len(prefix) <= Len(s) /\ SubSeq(s, 1, Len(prefix)) = prefix

\* The project name both resolvers derive from the project path.
ProjectName(path) ==
    Replace(Replace(Basename(path), PROJECT_EXTENSIONS[1], ""), PROJECT_EXTENSIONS[2], "")

\* os.path.samefile(a, b): raises when either file does not exist.
Samefile(a, b) ==
    [raised |-> Inode(a) = 0 \/ Inode(b) = 0,
     same   |-> Inode(a) # 0 /\ Inode(a) = Inode(b)]

\* The body of the scan for one candidate: Info.plist exists, loads, has a
\* WorkspacePath, and that is the same file as the project.
CandidateMatches(entry, project) ==
    /\ entry.plist.kind = "dict"
    /\ entry.plist.wp # ""
    /\ ~Samefile(entry.plist.wp, project).raised
    /\ Samefile(entry.plist.wp, project).same

\* The scan over os.listdir from entry i on: the first entry whose name
\* starts with one of the names and whose Info.plist matches; "None" at the
\* end of the listing.
RECURSIVE ScanLoop(_, _, _, _)
ScanLoop(items, i, names, project) ==
    IF i > Len(items) THEN "None"
    ELSE IF /\ \E n \in names : StartsWith(Pieces(items[i].name), n)
            /\ CandidateMatches(items[i], project)
         THEN items[i].name
         ELSE ScanLoop(items, i + 1, names, project)

\* find_active_derived_data of xcode_statusline.py, given what osascript
\* printed (raises: it raised or timed out).
find_active_derived_data(out, raises, items) ==
    IF raises \/ out = "" THEN "None"
    ELSE LET project_name == ProjectName(out)
             normalized_project_name == Replace(project_name, " ", "_")
         IN  ScanLoop(items, 1, {project_name, normalized_project_name}, out)

\* os.path.exists of a directory of the DerivedData root.
DirExists(items, name) == \E i \in 1..Len(items) : items[i].name = name

\* BuildWatcher.find_active_derived_data, given the watcher's fields: what it
\* returns and what it leaves in self.project_path and self.derived_data_path.
WatcherFind(out, raises, items, self_project_path, self_derived_data_path) ==
    IF raises \/ out = ""
    THEN [ret |-> "None", project_path |-> self_project_path,
          derived_data_path |-> self_derived_data_path]
    ELSE IF /\ out = self_project_path
            /\ self_derived_data_path # "None"
            /\ DirExists(items, self_derived_data_path)
         THEN [ret |-> self_derived_data_path, project_path |-> self_project_path,
               derived_data_path |-> self_derived_data_path]
         ELSE LET found == ScanLoop(items, 1, {ProjectName(out)}, out)
              IN  [ret |-> found, project_path |-> out,
                   derived_data_path |-> IF found # "None" THEN found
                                         ELSE self_derived_data_path]

\* The active workspace documents Xcode can have; "" when it has none.
Actives == {"", "/w/MyApp.xcodeproj", "/old/MyApp.xcodeproj", "/w/My App.xcodeproj"}

\* The Info.plist of a directory: absent, not a property list, or a dict with
\* a WorkspacePath ("" when the key is absent or empty).
Plists ==
    { [kind |-> "missing", wp |-> ""], [kind |-> "corrupt", wp |-> ""] }
    \cup { [kind |-> "dict", wp |-> w] :
             w \in {"", "/w/MyApp.xcodeproj", "/link/MyApp.xcodeproj",
                    "/old/MyApp.xcodeproj", "/gone/MyApp.xcodeproj",
                    "/w/My App.xcodeproj"} }

DirNames == {"MyApp-h1", "My_App-h2", "My App-h3", "MyAppKit-h4"}

Dirs == [name : DirNames, plist : Plists]

\* What os.listdir can enumerate: at most two directories of different names.
Listings ==
    {<<>>} \cup { <<d>> : d \in Dirs }
    \cup { <<p[1], p[2]>> : p \in { q \in Dirs \X Dirs : q[1].name # q[2].name } }

NoResolved == [by |-> "none", project |-> "", path |-> "None"]

\* Xcode gets another active workspace document.
SwitchProject ==
    /\ \E a \in Actives \ {active} : active' = a
    /\ resolved' = NoResolved
    /\ UNCHANGED <<listing, project_path>>
    /\ UNCHANGED <<cacheVars, buildVars>>
    /\ UNCHANGED extractVars
    /\ UNCHANGED inputVars
    /\ UNCHANGED watchVars

\* A directory of the DerivedData root is deleted.
RemoveDir ==
    /\ \E i \in 1..Len(listing) :
          listing' = SubSeq(listing, 1, i - 1) \o SubSeq(listing, i + 1, Len(listing))
    /\ resolved' = NoResolved
    /\ UNCHANGED <<active, project_path>>
    /\ UNCHANGED <<cacheVars, buildVars>>
    /\ UNCHANGED extractVars
    /\ UNCHANGED inputVars
    /\ UNCHANGED watchVars

\* The watch loop calls watcher.find_active_derived_data().
WatcherResolve ==
    /\ \E raises \in BOOLEAN :
          LET r == WatcherFind(active, raises, listing, project_path, derived_data_path)
          IN  /\ project_path' = r.project_path
              /\ derived_data_path' = r.derived_data_path
              /\ resolved' = [by |-> "watcher",
                              project |-> IF raises THEN "" ELSE active,
                              path |-> r.ret]
    /\ UNCHANGED <<listing, active>>
    /\ UNCHANGED <<cacheVars, manifest, current_time, logs, last_build_state, published,
                   parsed, status_data, log_file, env_logs_path, ran_extractor, checked>>
    /\ UNCHANGED extractVars
    /\ UNCHANGED inputVars
    /\ UNCHANGED watchVars

\* get_xcode_status calls find_active_derived_data().
StatuslineResolve ==
    /\ \E raises \in BOOLEAN :
          resolved' = [by |-> "statusline",
                       project |-> IF raises THEN "" ELSE active,
                       path |-> find_active_derived_data(active, raises, listing)]
    /\ UNCHANGED <<listing, active, project_path>>
    /\ UNCHANGED <<cacheVars, buildVars>>
    /\ UNCHANGED extractVars
    /\ UNCHANGED inputVars
    /\ UNCHANGED watchVars

(***************************************************************************)
(* Specifications.                                                         *)
(***************************************************************************)

\* The build-log part at rest: nothing watched, nothing read.
IdleBuild ==
    /\ manifest = [state |-> "missing", logs |-> <<>>]
    /\ current_time = 0
    /\ logs = <<>>
    /\ last_build_state = [status |-> "idle", errors |-> 0]
    /\ derived_data_path = "None"
    /\ published = [build_status |-> "idle", build_errors |-> 0, derived_data_path |-> ""]
    /\ parsed = [called |-> FALSE]
    /\ status_data = [none |-> TRUE]
    /\ log_file = [none |-> TRUE]
    /\ env_logs_path = ""
    /\ ran_extractor = FALSE
    /\ checked = NoCheck

\* The resolvers at rest.
IdleResolver ==
    /\ listing = <<>>
    /\ active = ""
    /\ project_path = "None"
    /\ resolved = NoResolved

\* The monitor server after run_server started the poll thread.
InitCache ==
    /\ data = InitialData
    /\ lock = "free"
    /\ now = 0
    /\ pc = [t \in Threads |-> IF t = "poll" THEN "check" ELSE "idle"]
    /\ kw = [t \in Threads |-> NoKw]
    /\ pre = [t \in Threads |-> NoPre]
    /\ req = NoReq
    /\ resp = NoResp
    /\ got = NoDict
    /\ gotAt = NoKw
    /\ wrote = FALSE
    /\ committed = InitialData

\* The extractor at rest.
IdleExtract ==
    /\ content = NoFile
    /\ extracted = NoExtract

\* Nothing observed yet.
IdleInputs ==
    /\ observed = NoObserved
    /\ polled = NoPoll

IdleWatch ==
    /\ wpc = [t \in WatcherThreads |-> "idle"]
    /\ wres = [t \in WatcherThreads |-> NoResult]
    /\ pending = FALSE
    /\ sent = NoSent
    /\ undelivered = NoUndelivered

Init == InitCache /\ IdleBuild /\ IdleResolver /\ IdleExtract /\ IdleInputs /\ IdleWatch

Next ==
    \/ PollCheck
    \/ PollSleep
    \/ Tick
    \/ \E t \in Threads : UpdateAcquire(t)
    \/ \E t \in Threads : UpdateMerge(t)
    \/ \E t \in Threads : UpdateStamp(t)
    \/ \E t \in Threads : UpdateRelease(t)
    \/ HttpReceive
    \/ DoGet
    \/ GetAcquire
    \/ GetCopy
    \/ GetDumps
    \/ DoPost
    \/ PostRespond
    \/ HttpDone

\* The monitor server: the poll thread beside the HTTP handler.
Spec == Init /\ [][Next]_vars

\* The cache part at rest.
IdleCache == InitCache

\* The build-log part before anything ran, on a readable manifest.
StartBuild ==
    /\ manifest \in { m \in Manifests : m.state = "ok" }
    /\ current_time = 1000
    /\ last_build_state = [status |-> "idle", errors |-> 0]
    /\ derived_data_path = "None"
    /\ published = [build_status |-> "idle", build_errors |-> 0, derived_data_path |-> ""]
    /\ parsed = NoParse
    /\ status_data = NoStatus
    /\ log_file = NoStatus
    /\ env_logs_path = "logs"
    /\ ran_extractor = FALSE
    /\ checked = NoCheck

\* The watcher beside one DerivedData directory.
InitWatcher ==
    /\ StartBuild
    /\ logs = [n \in LogNames |-> NoFile]
    /\ IdleCache
    /\ IdleResolver
    /\ IdleExtract
    /\ IdleInputs
    /\ IdleWatch

NextWatcher ==
    \/ WatchLoopResolve
    \/ CheckBuildStatus
    \/ OnCreatedLog
    \/ ManifestDamaged
    \/ ManifestRestored
    \/ ClockTick

SpecWatcher == InitWatcher /\ [][NextWatcher]_vars

\* The watcher after observer.start(): the watch loop and the observer thread
\* beside one resolved DerivedData directory, while Xcode rewrites the manifest.
InitWatcherThreads ==
    /\ manifest \in WrittenManifests
    /\ current_time = 1000
    /\ logs = [n \in LogNames |-> NoFile]
    /\ last_build_state = [status |-> "idle", errors |-> 0]
    /\ derived_data_path = "DA"
    /\ published = [build_status |-> "idle", build_errors |-> 0, derived_data_path |-> ""]
    /\ parsed = NoParse
    /\ status_data = NoStatus
    /\ log_file = NoStatus
    /\ env_logs_path = ""
    /\ ran_extractor = FALSE
    /\ checked = NoCheck
    /\ IdleCache
    /\ IdleResolver
    /\ IdleExtract
    /\ IdleInputs
    /\ IdleWatch

NextWatcherThreads ==
    \/ ManifestWritten
    \/ CheckBegin("loop")
    \/ CheckBegin("observer")
    \/ CheckCompare("loop")
    \/ CheckCompare("observer")
    \/ CheckPost("loop")
    \/ CheckPost("observer")

SpecWatcherThreads == InitWatcherThreads /\ [][NextWatcherThreads]_vars

\* The statusline script, run again and again beside one DerivedData
\* directory, with XCODE_LOGS_PATH set.
InitStatusline ==
    /\ StartBuild
    /\ logs \in [LogNames -> LogFiles]
    /\ IdleCache
    /\ IdleResolver
    /\ IdleExtract
    /\ IdleInputs
    /\ IdleWatch

NextStatusline ==
    \/ StatuslinePass
    \/ ManifestDamaged
    \/ ManifestRestored
    \/ ClockTick

SpecStatusline == InitStatusline /\ [][NextStatusline]_vars

\* The two manifest readers on the same file at the same time.
InitReaders ==
    /\ manifest \in Manifests
    /\ current_time \in Clock
    /\ last_build_state \in { [status |-> "idle", errors |-> 0],
                              [status |-> "failed", errors |-> 2] }
    /\ logs = [n \in LogNames |-> NoFile]
    /\ derived_data_path = "DA"
    /\ published = [build_status |-> "idle", build_errors |-> 0, derived_data_path |-> ""]
    /\ parsed = NoParse
    /\ status_data = NoStatus
    /\ log_file = NoStatus
    /\ env_logs_path = "logs"
    /\ ran_extractor = FALSE
    /\ checked = NoCheck
    /\ IdleCache
    /\ IdleResolver
    /\ IdleExtract
    /\ IdleInputs
    /\ IdleWatch

NextReaders ==
    \/ ReadWatcher
    \/ ReadStatusline

SpecReaders == InitReaders /\ [][NextReaders]_vars

\* The two resolvers beside a DerivedData root, while Xcode switches projects.
InitResolver ==
    /\ listing \in Listings
    /\ active \in Actives
    /\ project_path = "None"
    /\ resolved = NoResolved
    /\ IdleBuild
    /\ IdleCache
    /\ IdleExtract
    /\ IdleInputs
    /\ IdleWatch

NextResolver ==
    \/ SwitchProject
    \/ RemoveDir
    \/ WatcherResolve
    \/ StatuslineResolve

SpecResolver == InitResolver /\ [][NextResolver]_vars


\* The extractor on one log artifact, read again after each appended line.
InitExtractor ==
    /\ content \in { [exists |-> TRUE, readable |-> r, lines |-> <<>>] : r \in BOOLEAN }
    /\ extracted = NoExtract
    /\ IdleCache
    /\ IdleBuild
    /\ IdleResolver
    /\ IdleInputs
    /\ IdleWatch

NextExtractor ==
    \/ ExtractErrors
    \/ AppendLine

SpecExtractor == InitExtractor /\ [][NextExtractor]_vars

\* The two aggregation passes, each with every answer of its external
\* steps: get_xcode_status beside one DerivedData directory, with
\* XCODE_LOGS_PATH unset, and the server's poll thread.
InitAggregator ==
    /\ manifest \in { m \in Manifests :
                        \/ m.logs = <<>> /\ m.state # "ok"
                        \/ /\ m.state = "ok" /\ Len(m.logs) = 1
                           /\ m.logs[1].has_stop /\ m.logs[1].stop = 800
                           /\ m.logs[1].hls \in {"E", "S"} }
    /\ current_time = 1000
    /\ logs \in { [n \in LogNames |-> f] : f \in LogFiles \ {NoFile} }
    /\ last_build_state = [status |-> "idle", errors |-> 0]
    /\ derived_data_path = "None"
    /\ published = [build_status |-> "idle", build_errors |-> 0, derived_data_path |-> ""]
    /\ parsed = NoParse
    /\ status_data = NoStatus
    /\ log_file = NoStatus
    /\ env_logs_path = ""
    /\ ran_extractor = FALSE
    /\ checked = NoCheck
    /\ IdleCache
    /\ IdleResolver
    /\ IdleExtract
    /\ IdleInputs
    /\ IdleWatch

NextAggregator ==
    \/ AggregatorPass
    \/ PollCheck
    \/ PollSleep
    \/ UpdateAcquire("poll")
    \/ UpdateMerge("poll")
    \/ UpdateStamp("poll")
    \/ UpdateRelease("poll")

SpecAggregator == InitAggregator /\ [][NextAggregator]_vars

(***************************************************************************)
(* Claims about the monitor server.                                        *)
(***************************************************************************)

\* C1: the dict XcodeStatus.get returns, and the JSON do_GET sends from it,
\* is the cache content as it stood after the update calls completed when get
\* copied it: never the half-written state of an update in progress, and not
\* changed by an update that runs after get returned.
C1_GetReturnsCommittedSnapshot ==
    /\ pc["http"] = "dumps" => Deref(got) = gotAt
    /\ (pc["http"] = "done" /\ req.method = "GET" /\ req.path = "/status")
          => resp.json = gotAt

\* C1's case: GET /status answered while the poll thread is inside a later
\* update that has already changed the cache.
C1_Witness ==
    /\ pc["http"] = "done"
    /\ req.method = "GET" /\ req.path = "/status"
    /\ resp.code = 200
    /\ pc["poll"] = "stamp"
    /\ resp.json # data

\* C2: when an update call has done its writes, the named fields hold the
\* given values, last_update holds a time read during the call, and every
\* other field holds what it held when the call took the lock.
C2_UpdateMergesNamedFields ==
    \A t \in Threads :
        pc[t] = "release" =>
            /\ DOMAIN data = DOMAIN pre[t].data \cup DOMAIN kw[t]
            /\ \A k \in DOMAIN data :
                IF k = "last_update"
                THEN pre[t].at <= data[k] /\ data[k] <= now
                ELSE IF k \in DOMAIN kw[t]
                THEN data[k] = kw[t][k]
                ELSE data[k] = pre[t].data[k]

\* C2's case: a watcher POST of a failed build has been merged into a cache
\* that the poll thread filled before, and the poll thread's fields are kept.
C2_Witness ==
    /\ pc["http"] = "release"
    /\ "build_status" \in DOMAIN kw["http"]
    /\ data.build_status = "failed"
    /\ data.xcode_running
    /\ data.project_name = "MyApp"
    /\ data.current_file = "Main.swift"

\* C3: every request is answered once, as its method and path fix: GET
\* /status 200 with the cache as JSON, GET /health 200 OK, POST /update with a
\* JSON object 200 success after the merge, POST /update with a malformed body
\* 400 with an error and the cache untouched, any other path 404 and the cache
\* untouched.
C3_EveryRequestAnswered ==
    pc["http"] = "done" =>
        IF req.method = "GET" /\ req.path = "/status"
        THEN resp.code = 200 /\ resp.body = "json" /\ resp.json = gotAt /\ ~wrote
        ELSE IF req.method = "GET" /\ req.path = "/health"
        THEN resp.code = 200 /\ resp.body = "OK" /\ ~wrote
        ELSE IF req.method = "POST" /\ req.path = "/update" /\ req.body.kind = "object"
        THEN resp.code = 200 /\ resp.body = "success" /\ wrote
        ELSE IF req.method = "POST" /\ req.path = "/update"
        THEN resp.code = 400 /\ resp.body = "error" /\ ~wrote
        ELSE resp.code = 404 /\ ~wrote

\* C4: a poll pass that found Xcode not running publishes xcode_running
\* false, build_status idle and no build errors, whatever was published before.
C4_ClosedIdeResetsBuildStatus ==
    (pc["poll"] = "release" /\ ~kw["poll"].xcode_running) =>
        /\ data.xcode_running = FALSE
        /\ data.build_status = "idle"
        /\ data.build_errors = 0

(***************************************************************************)
(* Claims about the manifest readers.                                      *)
(***************************************************************************)

\* An entry with no stop time whose start is within the threshold of t.
InProgress(run, t, threshold) == ~run.has_stop /\ run.start > t - threshold

\* The entries with a stop time.
Completed(runs) == { i \in 1..Len(runs) : runs[i].has_stop }

\* Entry i has the maximum stop time of the completed entries.
HasMaxStop(runs, i) ==
    /\ i \in Completed(runs)
    /\ \A j \in Completed(runs) : runs[j].stop <= runs[i].stop

\* C5: on a manifest it can decode, parse_build_status returns
\* ("building", 0) exactly when some entry has no stop time and started within
\* the last 300 seconds, whatever completed entries there are, and then picks
\* no latest run; a lone entry without a stop time that started 300 seconds ago
\* or earlier gives ("idle", 0).
C5_BuildingIffActiveRun ==
    (parsed.called /\ ~parsed.result.raised) =>
        LET runs == manifest.logs
            in_progress == \E i \in 1..Len(runs) : InProgress(runs[i], current_time, 300)
        IN  /\ (parsed.result.status = "building") <=> in_progress
            /\ parsed.result.status = "building" =>
                  parsed.result.errors = 0 /\ parsed.result.selected = 0
            /\ (Len(runs) = 1 /\ ~runs[1].has_stop /\ ~in_progress) =>
                  parsed.result.status = "idle" /\ parsed.result.errors = 0

\* C5's case: building is reported from a run started 10 seconds ago that
\* stands after a completed, failed run.
C5_Witness ==
    /\ parsed.called
    /\ parsed.result.status = "building"
    /\ Len(manifest.logs) = 2
    /\ manifest.logs[1].has_stop /\ manifest.logs[1].hls = "E"
    /\ ~manifest.logs[2].has_stop /\ manifest.logs[2].start = current_time - 10

\* C6: a get_xcode_status pass that resolved the directory and found a run in
\* progress in its manifest reports no build errors, an empty error list, and
\* does not run the extractor.
C6_NoErrorsWhileBuilding ==
    ( /\ checked.called
      /\ "build_errors" \in DOMAIN status_data
      /\ manifest.state = "ok"
      /\ \E i \in 1..Len(manifest.logs) :
            InProgress(manifest.logs[i], current_time, BUILD_ACTIVE_THRESHOLD) )
    => /\ status_data.build_errors = 0
       /\ status_data.detailed_errors = <<>>
       /\ ~ran_extractor

\* C7: with no run in progress, parse_build_status reports the completed
\* entry with the maximum stop time: succeeded, failed or warning for S, E, W,
\* unknown otherwise, with that entry's error count; idle and 0 when no entry
\* has a stop time. check_build_failed picks the same entry and reports failed
\* exactly when its highLevelStatus is E.
C7_LatestRunSelected ==
    LET runs == manifest.logs
        in_progress == \E i \in 1..Len(runs) : InProgress(runs[i], current_time, 300)
        p == parsed.result
        c == checked.result
    IN  /\ (parsed.called /\ manifest.state = "ok" /\ ~in_progress) =>
              IF Completed(runs) = {}
              THEN p.status = "idle" /\ p.errors = 0
              ELSE /\ HasMaxStop(runs, p.selected)
                   /\ p.errors = runs[p.selected].errs
                   /\ (runs[p.selected].hls = "S" => p.status = "succeeded")
                   /\ (runs[p.selected].hls = "E" => p.status = "failed")
                   /\ (runs[p.selected].hls = "W" => p.status = "warning")
                   /\ (runs[p.selected].hls \notin {"S", "E", "W"} => p.status = "unknown")
        /\ (checked.called /\ manifest.state = "ok") =>
              IF Completed(runs) = {}
              THEN ~c.failed /\ c.error_count = 0
              ELSE /\ HasMaxStop(runs, c.selected)
                   /\ c.failed <=> runs[c.selected].hls = "E"
                   /\ c.error_count = runs[c.selected].errs
        /\ (parsed.called /\ checked.called /\ manifest.state = "ok" /\ ~in_progress) =>
              p.selected = c.selected

\* C7's case: both readers ran on a manifest whose latest run, failed, stands
\* before an earlier run.
C7_Witness ==
    /\ parsed.called /\ checked.called
    /\ manifest.state = "ok"
    /\ Len(manifest.logs) = 2
    /\ manifest.logs[1].has_stop /\ manifest.logs[2].has_stop
    /\ manifest.logs[1].stop > manifest.logs[2].stop
    /\ manifest.logs[1].hls = "E" /\ manifest.logs[2].hls = "S"
    /\ parsed.result.selected = 1 /\ parsed.result.status = "failed"
    /\ checked.result.failed

\* C8: a pass over a manifest that is missing or cannot be decoded yields the
\* status known before: the watcher leaves last_build_state and the published
\* status as they were, and a get_xcode_status pass that resolved the directory
\* yields the build errors and error list of the last persisted status.
C8_UnreadableManifestKeepsStatus ==
    [][ /\ (manifest.state # "ok" /\ parsed'.called) =>
              (last_build_state' = last_build_state /\ published' = published)
        /\ ( /\ manifest.state # "ok"
             /\ "build_errors" \in DOMAIN log_file
             /\ "project_path" \in DOMAIN status_data'
             /\ status_data'.project_path # "" ) =>
              /\ status_data'.build_errors = log_file.build_errors
              /\ status_data'.detailed_errors = log_file.detailed_errors
      ]_vars

(***************************************************************************)
(* Claims about the resolvers.                                             *)
(***************************************************************************)

\* The entries of the listing that match the project: the name starts with
\* the project name or its underscore variant, and the metadata declares a
\* WorkspacePath that is the same file as the project.
Matching(items, project) ==
    { i \in 1..Len(items) :
        /\ \/ StartsWith(Pieces(items[i].name), ProjectName(project))
           \/ StartsWith(Pieces(items[i].name), Replace(ProjectName(project), " ", "_"))
        /\ items[i].plist.kind = "dict"
        /\ items[i].plist.wp # ""
        /\ Inode(items[i].plist.wp) # 0
        /\ Inode(items[i].plist.wp) = Inode(project) }

\* C9: a resolver that saw an active project returns the first directory in
\* enumeration order whose name starts with the project name (or its
\* underscore variant) and whose metadata declares the same file as the
\* active project, skipping candidates with missing or unusable metadata, and
\* returns nothing when no directory matches.
C9_ResolverReturnsFirstMatch ==
    (resolved.by # "none" /\ resolved.project # "") =>
        LET m == Matching(listing, resolved.project)
        IN  IF m = {} THEN resolved.path = "None"
            ELSE /\ resolved.path # "None"
                 /\ \E i \in m : /\ listing[i].name = resolved.path
                                 /\ \A j \in m : i <= j

\* C10: when the active project's name contains a space, and a directory
\* named after the underscore form of the name declares the same project file,
\* each resolver finds a directory.
C10_UnderscoreVariantFound ==
    ( /\ resolved.by # "none"
      /\ resolved.project # ""
      /\ \E k \in 1..Len(ProjectName(resolved.project)) :
            ProjectName(resolved.project)[k] = " "
      /\ \E i \in Matching(listing, resolved.project) :
            StartsWith(Pieces(listing[i].name),
                       Replace(ProjectName(resolved.project), " ", "_")) )
    => resolved.path # "None"

(***************************************************************************)
(* Claims about the error extractor.                                       *)
(***************************************************************************)

\* The message of a line holds "warning" in some letter case: as the marker
\* after the location, or inside the text.
MessageHoldsWarning(line) == line.marker = "warning" \/ line.msg.word # ""

\* The first line of the log a record's message comes from.
FirstLine(lines, rec) ==
    CHOOSE i \in 1..Len(lines) :
        /\ lines[i].msg = rec.msg
        /\ \A j \in 1..(i - 1) : lines[j].msg # rec.msg

\* The log without its line j.
WithoutLine(file, j) ==
    [file EXCEPT !.lines = SubSeq(@, 1, j - 1) \o SubSeq(@, j + 1, Len(@))]

\* C11: no record of the extractor's output comes from a source-located line
\* whose message holds "warning" in any letter case.
C11_NoWarningRecords ==
    extracted.called =>
        \A k \in 1..Len(extracted.value) : \A i \in 1..Len(content.lines) :
            (content.lines[i].loc # "" /\ content.lines[i].msg = extracted.value[k].msg)
                => ~MessageHoldsWarning(content.lines[i])

\* C12: the extractor's output holds no two equal records, keeps the order of
\* first occurrence, and a source-located error line that occurs twice gives
\* the output of the log with the repeat removed.
C12_RepeatedLineOnce ==
    extracted.called =>
        /\ \A a, b \in 1..Len(extracted.value) :
              a < b => /\ extracted.value[a] # extracted.value[b]
                       /\ FirstLine(content.lines, extracted.value[a])
                            <= FirstLine(content.lines, extracted.value[b])
        /\ \A j \in 2..Len(content.lines) :
              ( /\ content.lines[j].loc # ""
                /\ content.lines[j].marker = "error"
                /\ \E i \in 1..(j - 1) : content.lines[i] = content.lines[j] )
              => extracted.value = extract_errors_from_log(WithoutLine(content, j))

\* C13: every record of the output, of either tier, is shorter than 500
\* characters and holds no run of 20 or more hex digits of either case.
C13_RecordsShortAndHexFree ==
    extracted.called =>
        \A k \in 1..Len(extracted.value) :
            /\ RecordLen(extracted.value[k]) < 500
            /\ extracted.value[k].msg.hex_run < 20

\* C14: the output never mixes tiers: it is the tier-1 list when tier 1
\* accepted a record, and holds generic records (records without a location)
\* only when tier 1 accepted none for the whole log; a log whose only matching
\* line is "error: disk full" gives ["disk full"].
C14_TiersNeverMixed ==
    (extracted.called /\ content.readable) =>
        LET out == extracted.value
            tier1 == SwiftErrors(content.lines, 1, <<>>)
        IN  /\ \/ \A k \in 1..Len(out) : out[k].loc # ""
               \/ \A k \in 1..Len(out) : out[k].loc = ""
            /\ (\E k \in 1..Len(out) : out[k].loc = "") => tier1 = <<>>
            /\ tier1 # <<>> => out = tier1
            /\ (\A i \in 1..Len(content.lines) : content.lines[i] \in {LineGeneric, LineNoise})
               => out = IF \E i \in 1..Len(content.lines) : content.lines[i] = LineGeneric
                        THEN <<ErrorRecord("", "", LineGeneric.msg)>> ELSE <<>>

\* C14's case: a log with no source-located line and one "error: disk full"
\* line was extracted to the single record "disk full".
C14_Witness ==
    /\ extracted.called
    /\ content.lines = <<LineNoise, LineGeneric>>
    /\ extracted.value = <<ErrorRecord("", "", LineGeneric.msg)>>

(***************************************************************************)
(* Claims about the aggregation pass.                                      *)
(***************************************************************************)

\* The positions of the separator in a title.
SeparatorAt(title) == { i \in 1..Len(title) : title[i] = Separator }

Smallest(S) == CHOOSE i \in S : \A j \in S : i <= j

Largest(S) == CHOOSE i \in S : \A j \in S : j <= i

\* The text before the (first) separator and the text after the (last) one;
\* both empty when the title holds no separator.
TextBefore(title) ==
    IF SeparatorAt(title) = {} THEN ""
    ELSE Join(SubSeq(title, 1, Smallest(SeparatorAt(title)) - 1))

TextAfter(title) ==
    IF SeparatorAt(title) = {} THEN ""
    ELSE Join(SubSeq(title, Largest(SeparatorAt(title)) + 1, Len(title)))

\* The phases of the poll thread's status.update call.
PollUpdating == pc["poll"] \in {"acquire", "merge", "stamp", "release"}

\* C15: with Xcode running, a window title holding the separator gives
\* project_name the text before it and current_file the text after it, and a
\* title without the separator gives both empty, in get_xcode_status and in
\* poll_xcode_status alike; the title "MyApp -- Main.swift" with no resolved
\* DerivedData directory gives project_name "MyApp", current_file
\* "Main.swift", build_errors 0 and no detailed errors.
C15_TitleSplitsIntoProjectAndFile ==
    /\ (observed.running /\ ~observed.title_raised)
          => /\ status_data.xcode_running
             /\ status_data.project_name = TextBefore(observed.title)
             /\ status_data.current_file = TextAfter(observed.title)
    /\ (PollUpdating /\ polled.running)
          => /\ kw["poll"].xcode_running
             /\ kw["poll"].project_name = TextBefore(polled.title)
             /\ kw["poll"].current_file = TextAfter(polled.title)
    /\ (/\ observed.running
        /\ observed.title = <<"MyApp", Separator, "Main.swift">>
        /\ observed.dd = "None")
          => /\ status_data.project_name = "MyApp"
             /\ status_data.current_file = "Main.swift"
             /\ status_data.build_errors = 0
             /\ status_data.detailed_errors = <<>>

\* C15's case: a pass saw the title "MyApp -- Main.swift" with no DerivedData
\* directory resolved, while the poll thread is handing the fields of a title
\* with two separators to status.update.
C15_Witness ==
    /\ observed.running
    /\ observed.title = <<"MyApp", Separator, "Main.swift">>
    /\ observed.dd = "None"
    /\ status_data.project_name = "MyApp"
    /\ status_data.current_file = "Main.swift"
    /\ PollUpdating
    /\ polled.title = <<"MyApp", Separator, "Sources", Separator, "App.swift">>
    /\ kw["poll"].current_file = "App.swift"

\* What the extractor gives for the log artifact of a run: nothing when the
\* artifact is not there.
ArtifactErrors(run) ==
    IF logs[run.fileName].exists THEN extract_errors_from_log(logs[run.fileName])
    ELSE <<>>

\* The completed entries with the maximum stop time.
LatestCompleted(runs) == { i \in 1..Len(runs) : HasMaxStop(runs, i) }

\* C16: in a get_xcode_status pass that resolved the DerivedData directory and
\* read the manifest: when the latest completed run is Failed, detailed_errors
\* is the extractor's output for that run's log artifact and build_errors is
\* its length, or that run's totalNumberOfErrors when the output is empty;
\* when the latest completed run is not Failed, build_errors is 0 and
\* detailed_errors is empty.
C16_ErrorsOfLatestFailedRun ==
    (observed.running /\ observed.dd = "DA" /\ manifest.state = "ok")
       => /\ \A i \in LatestCompleted(manifest.logs) :
                (\A j \in LatestCompleted(manifest.logs) : manifest.logs[j].hls = "E")
                   => /\ status_data.detailed_errors = ArtifactErrors(manifest.logs[i])
                      /\ status_data.build_errors =
                            IF ArtifactErrors(manifest.logs[i]) # <<>>
                            THEN Len(ArtifactErrors(manifest.logs[i]))
                            ELSE manifest.logs[i].errs
          /\ (\A j \in LatestCompleted(manifest.logs) : manifest.logs[j].hls # "E")
                => /\ status_data.build_errors = 0
                   /\ status_data.detailed_errors = <<>>

\* C16's case: the manifest holds a Failed run stopped at 800 and, after it,
\* a Failed run stopped at 900 whose log holds one error line, the older
\* run's log holds none, and the pass reported that one record.
C16_Witness ==
    /\ observed.running /\ observed.dd = "DA" /\ manifest.state = "ok"
    /\ Len(manifest.logs) = 2
    /\ manifest.logs[1].has_stop /\ manifest.logs[1].stop = 800
    /\ manifest.logs[1].hls = "E"
    /\ manifest.logs[2].has_stop /\ manifest.logs[2].stop = 900
    /\ manifest.logs[2].hls = "E"
    /\ logs["r800.log"].lines = <<>> /\ logs["r800.log"].exists
    /\ logs["r900.log"].lines = <<LineSwiftError>>
    /\ Len(status_data.detailed_errors) = 1
    /\ status_data.build_errors = 1

\* C16's other case: the latest completed run Failed with no log artifact, and
\* the pass reported the manifest's count for it.
C16_FallbackReached ==
    /\ observed.running /\ observed.dd = "DA" /\ manifest.state = "ok"
    /\ Len(manifest.logs) = 1 /\ manifest.logs[1].hls = "E"
    /\ manifest.logs[1].has_stop /\ manifest.logs[1].stop = 900
    /\ ~logs["r900.log"].exists
    /\ status_data.build_errors = 2

\* C17: with Xcode running, a pass whose step failed still reports Xcode as
\* running, with the fields of the steps that succeeded: a window-title query
\* that times out leaves the title fields empty and the build fields as the
\* manifest gives them, and the poll thread still calls status.update.
C17_StepFailureIsolated ==
    /\ observed.running => status_data.xcode_running
    /\ polled.running => PollUpdating

(***************************************************************************)
(* Claims about the drivers.                                               *)
(***************************************************************************)

\* C18: a driver pass whose computed fields all equal what the cache holds
\* does not write to the cache: a poll_xcode_status pass calls status.update
\* only when one of its fields differs from the cached one, so the second of
\* two passes over the same inputs leaves the cache and its last_update as
\* they are.
C18_UnchangedPassDoesNotWrite ==
    [][ (pc["poll"] = "check" /\ pc'["poll"] = "acquire")
           => \E k \in DOMAIN kw'["poll"] : kw'["poll"][k] # data[k] ]_vars

\* C18, the watcher's half: a check_build_status pass that parsed the status
\* it holds in last_build_state posts nothing.
C18_WatcherPostsOnlyOnChange ==
    [][ ( /\ parsed'.called
          /\ parsed'.result.status = last_build_state.status
          /\ parsed'.result.errors = last_build_state.errors )
           => published' = published ]_vars

\* C19: at most one check_build_status pass is executing at any time: the
\* observer thread's pass and the watch loop's pass never overlap.
C19_PassesNeverOverlap ==
    ~(wpc["loop"] # "idle" /\ wpc["observer"] # "idle")

\* C20: when the POST of a changed status failed, the next check_build_status
\* pass that reads the same status sends it again.
C20_FailedPostIsResent ==
    [][ ( /\ undelivered.waiting
          /\ parsed'.called
          /\ ~parsed'.result.raised
          /\ parsed'.result.status = undelivered.status
          /\ parsed'.result.errors = undelivered.errors )
           => /\ sent'.called
              /\ sent'.status = undelivered.status
              /\ sent'.errors = undelivered.errors ]_vars

(***************************************************************************)
(* Claims about the persisted status file.                                 *)
(***************************************************************************)

\* C21: with XCODE_LOGS_PATH set, after a get_xcode_status pass that found
\* Xcode not running the persisted file holds that pass's snapshot, so
\* read_xcode_context does not report Xcode as running.
C21_FileHoldsLastPass ==
    (status_data = NotRunning /\ ~observed.running /\ env_logs_path # "")
       => read_xcode_context(env_logs_path, log_file) # "Xcode is running"

(***************************************************************************)
(* More claims about the error extractor.                                  *)
(***************************************************************************)

\* The candidate of the first pattern that matches a line, in the tier the
\* output comes from: the only record the line may contribute.
FirstMatches(line) ==
    (IF SwiftMatches(line) # <<>> THEN {SwiftMatches(line)[1]} ELSE {})
    \cup (IF GenericMatches(line) # <<>> THEN {GenericMatches(line)[1]} ELSE {})

\* C22: each log line contributes at most one record, the candidate of the
\* first pattern that matches it: the output has no more records than the log
\* has lines, and every record is the first match of some line.
C22_FirstMatchWinsPerLine ==
    extracted.called
       => /\ Len(extracted.value) <= Len(content.lines)
          /\ \A k \in 1..Len(extracted.value) :
                \E i \in 1..Len(content.lines) :
                    extracted.value[k] \in FirstMatches(content.lines[i])

(***************************************************************************)
(* More claims about the monitor server.                                   *)
(***************************************************************************)

\* C23: update calls of the poll thread and of POST /update are serialized:
\* when a call has done its writes, every field it names holds its value and
\* every other field holds what the last completed call left, so the cache
\* after the calls is the calls applied one after the other and no call's
\* fields are lost.
C23_UpdatesSerialized ==
    \A t \in Threads :
        pc[t] = "release" =>
            \A k \in DOMAIN data \ {"last_update"} :
                IF k \in DOMAIN kw[t]
                THEN data[k] = kw[t][k]
                ELSE k \in DOMAIN committed /\ data[k] = committed[k]

\* C23's case: the poll thread has written its fields under the lock while a
\* POST /update of the watcher waits for the lock, and the build fields of an
\* earlier POST are still in the cache.
C23_Witness ==
    /\ pc["poll"] = "release"
    /\ lock = "poll"
    /\ pc["http"] = "acquire"
    /\ "build_status" \in DOMAIN kw["http"]
    /\ data.xcode_running
    /\ data.project_name = "MyApp"
    /\ data.build_status = "failed"

(***************************************************************************)
(* More claims about the watcher.                                          *)
(***************************************************************************)

\* The directory of that name is in the listing and its metadata declares a
\* WorkspacePath that is the same file as the project.
DeclaresProject(items, name, project) ==
    \E i \in 1..Len(items) :
        /\ items[i].name = name
        /\ items[i].plist.kind = "dict"
        /\ items[i].plist.wp # ""
        /\ Inode(items[i].plist.wp) # 0
        /\ Inode(items[i].plist.wp) = Inode(project)

\* C24: after a call of BuildWatcher.find_active_derived_data that saw an
\* active project, the directory it returned, if any, declares that project,
\* and so does the derived_data_path the watcher goes on to use.
C24_WatcherDirectoryOfActiveProject ==
    (resolved.by = "watcher" /\ resolved.project # "") =>
        /\ resolved.path # "None"
              => DeclaresProject(listing, resolved.path, resolved.project)
        /\ derived_data_path # "None"
              => DeclaresProject(listing, derived_data_path, resolved.project)

\* C25: with every POST of check_build_status delivered, once a
\* check_build_status pass has read the manifest the server's build_status and
\* build_errors are the watcher's last_build_state: the "building" that
\* on_created posted for a new log artifact is replaced by the status of the
\* finished run.
C25_ServerFollowsWatcher ==
    (parsed.called /\ ~parsed.result.raised /\ ~undelivered.waiting)
       => /\ published.build_status = last_build_state.status
          /\ published.build_errors = last_build_state.errors

====
